---- MODULE Spec2Model ----
(***************************************************************************)
(* Validation engine of the Tracker repository                             *)
(* (src/server/validation_engine.py): the GitHub push webhook, the module  *)
(* matcher, the store update and the delay estimator, as a state machine   *)
(* whose steps are the store operations and broadcasts of one request.     *)
(* The ngrok tunnel manager (src/server/ngrok_manager.py) is a process of   *)
(* its own, modelled by the variable manager.                              *)
(***************************************************************************)
EXTENDS Integers, Sequences, FiniteSets, TLC

\* ------------------------------------------------------------------ bounds
NumProcs == 2       \* concurrent webhook requests
MaxClock == 1       \* datetime.utcnow() takes the values 0..MaxClock (stored at ms resolution)
MaxModules == 2     \* modules embedded in the projects of an initial store (wide stores)
DayTicks == 2       \* clock ticks that make one day (timedelta.days)
MaxHistory == 5     \* modules the pusher completed earlier (estimator stores)
MaxDays == 3        \* days between the earliest and the latest due date or push (estimator stores)
MaxTunnels == 2     \* tunnels in one answer of the ngrok API

Procs == 1..NumProcs

\* ------------------------------------------------------------- data model
None == "None"      \* Python None for string-valued fields
NoTime == -1        \* a datetime field that is absent (or null)
Malformed == -2     \* a datetime field that holds something else than a date

\* str.lower() on the characters repository names are written with
LowerChar(c) ==
  CASE c = "T" -> "t"
    [] c = "O" -> "o"
    [] OTHER -> c

\* (a lower() that leaves the name as it is)
LowerUnchanged(s) == s

Lower(s) == [i \in DOMAIN s |-> LowerChar(s[i])]

\* validationRule of a module: absent, or a dict with githubRepo ("" when the
\* dict has no githubRepo key or an empty one)
NoRule == [present |-> FALSE, githubRepo |-> <<>>]
Rule(repo) == [present |-> TRUE, githubRepo |-> repo]

\* users collection: looked up, never written
Users ==
  { [id |-> "U1", githubUsername |-> "alice", role |-> "user"],
    [id |-> "U2", githubUsername |-> "bob", role |-> "manager"] }

NoUser == [id |-> None, githubUsername |-> None, role |-> None]

\* a module document embedded in a project
ModuleDoc(id, uid, status, rule, due, created, completed) ==
  [ id |-> id,
    assignedToUserId |-> uid,
    status |-> status,
    validationRule |-> rule,
    dueDate |-> due,
    createdAt |-> created,
    completedAt |-> completed ]

\* ... created at time 0 and, when completed, completed at once
Module(id, uid, status, rule, due) ==
  ModuleDoc(id, uid, status, rule, due, 0, IF status = "completed" THEN 0 ELSE NoTime)

NoModule == Module(0, None, None, NoRule, NoTime)

Project(id, team, modules) == [id |-> id, teamId |-> team, modules |-> modules]

NoProject == Project(0, None, <<>>)

\* (a test for the rule alone)
HasRule(rule) == rule.present

\* Python truthiness of a validationRule dict and of its githubRepo
HasRepo(rule) == rule.present /\ rule.githubRepo /= <<>>

\* the request body: absent, {} or an object; pusher and repository are
\* "absent" (no key, or no name in it), "null" (the key holds null) or a name
Field(kind, name) == [kind |-> kind, name |-> name]
AbsentP == Field("absent", None)
NullP == Field("null", None)
AbsentR == Field("absent", <<>>)
NullR == Field("null", <<>>)
\* commits is "list" (a list, or no key: the default [] stands in) or "null"
Payload(body, pusher, repo) ==
  [body |-> body, pusher |-> pusher, repository |-> repo, commits |-> "list"]
NullCommits(pl) == [pl EXCEPT !.commits = "null"]
NoPayload == Payload("absent", AbsentP, AbsentR)

\* ------------------------------------------------------- store operations
\* (a lookup that falls back to some user when the name is unknown)
GetUserOrDefault(github_username) ==
  IF \E u \in Users : u.githubUsername = github_username
    THEN CHOOSE u \in Users : u.githubUsername = github_username
    ELSE CHOOSE u \in Users : u.id = "U1"

\* users_collection.find_one({'githubUsername': github_username})
GetUserByGithubUsername(github_username) ==
  IF \E u \in Users : u.githubUsername = github_username
    THEN CHOOSE u \in Users : u.githubUsername = github_username
    ELSE NoUser

\* (a test that takes every module of the user as the fallback)
ModuleMatchesIgnoringRule(module, user_id, repo_name, status) ==
  /\ module.assignedToUserId = user_id
  /\ module.status = status

\* (a test that forgets the status)
ModuleMatchesAnyStatus(module, user_id, repo_name, status) ==
  /\ module.assignedToUserId = user_id
  /\ IF HasRepo(module.validationRule)
       THEN Lower(module.validationRule.githubRepo) = Lower(repo_name)
       ELSE TRUE

\* (a test that forgets the assigned user)
ModuleMatchesAnyUser(module, user_id, repo_name, status) ==
  /\ module.status = status
  /\ IF HasRepo(module.validationRule)
       THEN Lower(module.validationRule.githubRepo) = Lower(repo_name)
       ELSE TRUE

\* (a test without the fallback)
ModuleMatchesRuleOnly(module, user_id, repo_name, status) ==
  /\ module.assignedToUserId = user_id
  /\ module.status = status
  /\ HasRepo(module.validationRule)
  /\ Lower(module.validationRule.githubRepo) = Lower(repo_name)

\* the test applied to one module while scanning: assigned user and status,
\* then the repository of its validationRule when it has one, else the fallback
ModuleMatches(module, user_id, repo_name, status) ==
  /\ module.assignedToUserId = user_id
  /\ module.status = status
  /\ IF HasRepo(module.validationRule)
       THEN Lower(module.validationRule.githubRepo) = Lower(repo_name)
       ELSE TRUE

\* positions <<project, module index>> of a list of projects, and scan order
Positions(projs) ==
  UNION { { <<i, j>> : j \in DOMAIN projs[i].modules } : i \in DOMAIN projs }

ScannedBefore(a, b) == a[1] < b[1] \/ (a[1] = b[1] /\ a[2] < b[2])

NotFound == [found |-> FALSE, pi |-> 0, idx |-> 0]

\* find_module_in_projects: the first module in scan order that passes the test
FindModuleInProjects(projs, user_id, repo_name, status) ==
  LET hits == { pos \in Positions(projs) :
                  ModuleMatches(projs[pos[1]].modules[pos[2]], user_id, repo_name, status) }
  IN IF hits = {} THEN NotFound
     ELSE LET first == CHOOSE a \in hits : \A b \in hits : a = b \/ ScannedBefore(a, b)
          IN [found |-> TRUE, pi |-> first[1], idx |-> first[2]]

\* projects_collection.find_one({'_id': project_id})
HasProject(projs, project_id) == \E i \in DOMAIN projs : projs[i].id = project_id
FindOne(projs, project_id) ==
  IF HasProject(projs, project_id)
    THEN projs[CHOOSE i \in DOMAIN projs : projs[i].id = project_id]
    ELSE NoProject

\* (a $set that reaches every module of the project)
SetModuleStatusAll(doc, module_index, new_status, t) ==
  [doc EXCEPT !.modules = [j \in DOMAIN doc.modules |->
     [doc.modules[j] EXCEPT !.status = new_status, !.completedAt = t]]]

\* (a $set that stores the completion time and leaves the status)
SetCompletedAtOnly(doc, module_index, new_status, t) ==
  [doc EXCEPT !.modules[module_index].completedAt = t]

\* the $set of update_module_status applied to one project document
SetModuleStatus(doc, module_index, new_status, t) ==
  [doc EXCEPT !.modules[module_index].status = new_status,
              !.modules[module_index].completedAt = t]

\* projects_collection.update_one({'_id': project_id}, {'$set': ...}): the filter
\* names the project only; modified_count counts the documents the write changed
UpdateOne(projs, project_id, module_index, new_status, t) ==
  LET new == [i \in DOMAIN projs |->
                IF projs[i].id = project_id /\ module_index \in DOMAIN projs[i].modules
                  THEN SetModuleStatus(projs[i], module_index, new_status, t)
                  ELSE projs[i]]
  IN [projects |-> new,
      modified_count |-> Cardinality({ i \in DOMAIN projs : new[i] /= projs[i] })]

\* ---------------------------------------------------------- delay estimator
HistoryLimit == 20  \* { '$limit': 20 }
DefaultAvg == 7     \* average completion time without history

\* (days cut towards zero)
DaysTowardsZero(delta) ==
  IF delta >= 0 THEN delta \div DayTicks ELSE -((-delta) \div DayTicks)

\* (days that count a started day as a whole one)
DaysStarted(delta) == -((-delta) \div DayTicks)

\* timedelta.days: whole days, rounded towards minus infinity
Days(delta) == delta \div DayTicks

Abs(n) == IF n < 0 THEN -n ELSE n

\* the aggregate of calculate_predictive_delay: the unwound modules, in store
\* order, that are assigned to the user, completed and carry both timestamps,
\* cut at the limit
HistoryMatch(module, user_id) ==
  /\ module.assignedToUserId = user_id
  /\ module.status = "completed"
  /\ module.completedAt /= NoTime
  /\ module.createdAt /= NoTime

UserModules(projs, user_id) ==
  LET all == { pos \in Positions(projs) :
                 HistoryMatch(projs[pos[1]].modules[pos[2]], user_id) }
  IN { pos \in all :
         Cardinality({ b \in all : ScannedBefore(b, pos) }) < HistoryLimit }

RECURSIVE SumSpans(_, _)
SumSpans(projs, S) ==
  IF S = {} THEN 0
  ELSE LET pos == CHOOSE x \in S : TRUE
           mod == projs[pos[1]].modules[pos[2]]
       IN Days(mod.completedAt - mod.createdAt) + SumSpans(projs, S \ {pos})

\* (a rounding that cuts the digits after the first decimal)
TruncateTenths(sum, n) == (10 * sum) \div n

\* round(sum / n, 1), kept in tenths; ties go to the even tenth (the float
\* sum / n is exact at every tie of fewer than 20 data points)
RoundTenths(sum, n) ==
  LET q == (10 * sum) \div n
      r == (10 * sum) % n
  IN IF 2 * r < n THEN q
     ELSE IF 2 * r > n THEN q + 1
     ELSE IF q % 2 = 0 THEN q ELSE q + 1

NoAvg == [isNone |-> TRUE, tenths |-> 0]
Avg(t) == [isNone |-> FALSE, tenths |-> t]

\* (thresholds that are passed only above 5 and 2)
ConfidenceAbove(n) == IF n > 5 THEN "high" ELSE IF n > 2 THEN "medium" ELSE "low"

Confidence(n) == IF n >= 5 THEN "high" ELSE IF n >= 2 THEN "medium" ELSE "low"

DelayReason(delay_days) ==
  IF delay_days > 0 THEN [text |-> "late", days |-> delay_days]
  ELSE IF delay_days = 0 THEN [text |-> "on time", days |-> 0]
  ELSE [text |-> "early", days |-> Abs(delay_days)]

NoDueDate ==
  [ predictedDelay |-> 0,
    delayReason |-> [text |-> "No due date set", days |-> 0],
    confidence |-> "n/a",
    avgCompletionTime |-> NoAvg,
    historicalDataPoints |-> 0 ]

CalculationError ==
  [ predictedDelay |-> 0,
    delayReason |-> [text |-> "Calculation error", days |-> 0],
    confidence |-> "low",
    avgCompletionTime |-> NoAvg,
    historicalDataPoints |-> 0 ]

\* (an estimator that subtracts the completion from the due date)
CalculatePredictiveDelayReversed(module, user_id, projs) ==
  IF module.dueDate = NoTime THEN NoDueDate
  ELSE LET delay_days == Days(module.dueDate - module.completedAt)
           hist == UserModules(projs, user_id)
           n == Cardinality(hist)
       IN [ predictedDelay |-> delay_days,
            delayReason |-> DelayReason(delay_days),
            confidence |-> Confidence(n),
            avgCompletionTime |->
              IF n = 0 THEN Avg(10 * DefaultAvg) ELSE Avg(RoundTenths(SumSpans(projs, hist), n)),
            historicalDataPoints |-> n ]

\* calculate_predictive_delay when nothing raises; projs is the store as the
\* aggregate reads it
CalculatePredictiveDelay(module, user_id, projs) ==
  IF module.dueDate = NoTime THEN NoDueDate
  ELSE LET delay_days == Days(module.completedAt - module.dueDate)
           hist == UserModules(projs, user_id)
           n == Cardinality(hist)
       IN [ predictedDelay |-> delay_days,
            delayReason |-> DelayReason(delay_days),
            confidence |-> Confidence(n),
            avgCompletionTime |->
              IF n = 0 THEN Avg(10 * DefaultAvg) ELSE Avg(RoundTenths(SumSpans(projs, hist), n)),
            historicalDataPoints |-> n ]

\* (an estimator that runs its aggregate first)
QueriesHistoryAlways(module) == TRUE

\* does calculate_predictive_delay come to its aggregate? Not after the early
\* return for a module without due date
QueriesHistory(module) == module.dueDate /= NoTime

\* what makes the body of calculate_predictive_delay raise, the store being
\* reachable: a due date that fromisoformat cannot parse, or a timestamp of an
\* aggregated module that cannot be subtracted
EstimateRaises(module, user_id, projs) ==
  /\ module.dueDate /= NoTime
  /\ \/ module.dueDate = Malformed
     \/ \E pos \in UserModules(projs, user_id) :
          LET mod == projs[pos[1]].modules[pos[2]]
          IN mod.createdAt = Malformed \/ mod.completedAt = Malformed

\* (an estimator that reports a failure as a missing due date)
EstimateOfAsNoDueDate(module, user_id, projs) ==
  IF EstimateRaises(module, user_id, projs) THEN NoDueDate
  ELSE CalculatePredictiveDelay(module, user_id, projs)

\* calculate_predictive_delay with its `except Exception`
EstimateOf(module, user_id, projs) ==
  IF EstimateRaises(module, user_id, projs) THEN CalculationError
  ELSE CalculatePredictiveDelay(module, user_id, projs)

\* ------------------------------------------------------------------ state
VARIABLES
  projects,   \* projects collection: the project documents in store order
  now,        \* datetime.utcnow()
  pc,         \* pc[p]: where request p stands
  loc,        \* loc[p]: the local variables of request p
  emitted,    \* emitted[p]: the socketio.emit calls of request p, in order
  response,   \* response[p]: the HTTP response of request p
  obs,        \* obs[p]: what request p saw and did (history, read by the properties only)
  before,     \* the store as it was when the latest delivery of SeqSpec arrived (history)
  listed,     \* the latest answer of GET /api/modules or modules_snapshot emitted
  manager     \* ngrok_manager.py: its globals, the URL file and where it stands

vars == <<projects, now, pc, loc, emitted, response, obs, before, listed, manager>>

NoResult ==
  [ ok |-> FALSE, id |-> 0, status |-> None, assignedToUserId |-> None,
    projectId |-> 0, teamId |-> None, completedBy |-> None,
    repository |-> <<>>, delay |-> NoDueDate ]

NoResponse == [code |-> 0, status |-> None, module |-> NoResult]

InitLoc ==
  [ payload |-> NoPayload, user |-> NoUser, project |-> NoProject, module_index |-> 0,
    updated_module |-> NoModule, fresh_project |-> NoProject, delay_info |-> NoDueDate,
    result |-> NoResult, excepted |-> FALSE ]

InitObs ==
  [ scan |-> <<>>, storeFailed |-> FALSE, estimateFailed |-> FALSE,
    reads |-> 0, writes |-> 0 ]

\* no listing asked yet; answered: the requests that had their HTTP response
\* when the listing was asked (history)
NoListing == [kind |-> "none", modules |-> <<>>, answered |-> {}]

\* ngrok_manager.py as loaded (lines 36-37), before main(). The fields after
\* status are history, read by the properties only: the requests the running
\* get_public_url made and the first tunnel list it was given, the restart
\* attempts begun and failed since the last successful start, what the latest
\* health check saw, whether cleanup() ran before the exit and whether the
\* exit was the one of line 214.
ManagerLoaded ==
  [ pc |-> "main", caller |-> "main", restart_count |-> 0, ngrok_process |-> None,
    url_file |-> FALSE, attempt |-> 0, url |-> None, status |-> -1,
    requests |-> 0, first |-> <<>>, begun |-> 0, failed |-> 0,
    observed |-> [process |-> None, ok |-> FALSE, tunnels |-> 0],
    cleaned |-> FALSE, gave_up |-> FALSE ]

InitRequests ==
  /\ manager = ManagerLoaded
  /\ listed = NoListing
  /\ pc = [p \in Procs |-> "idle"]
  /\ loc = [p \in Procs |-> InitLoc]
  /\ emitted = [p \in Procs |-> <<>>]
  /\ response = [p \in Procs |-> NoResponse]
  /\ obs = [p \in Procs |-> InitObs]
  /\ before = projects

\* ------------------------------------------------------------ the handlers
\* payload.get(key, {}).get('name'): "null" raises AttributeError, "absent" gives None
Raises(field) == field.kind = "null"
Missing(field) == field.kind = "absent"

\* (an extraction that forgets to check the repository name)
ExtractsPusherOnly(pl) ==
  /\ ~Raises(pl.pusher) /\ ~Missing(pl.pusher)
  /\ ~Raises(pl.repository)

\* validate_github_push up to its first store call: does it go on to the store?
Extracts(pl) ==
  /\ ~Raises(pl.pusher) /\ ~Missing(pl.pusher)
  /\ ~Raises(pl.repository) /\ ~Missing(pl.repository)

\* ... and does it leave through `except Exception`?
ExtractRaises(pl) ==
  \/ Raises(pl.pusher)
  \/ ~Missing(pl.pusher) /\ Raises(pl.repository)

\* `if not payload`: no body, or an empty object
NoBody(pl) == pl.body \in {"absent", "empty"}

\* the dict validate_github_push returns on success
Result(l, delay_info) ==
  LET module == l.project.modules[l.module_index]
  IN [ ok |-> TRUE,
       id |-> module.id,
       status |-> "completed",
       assignedToUserId |-> module.assignedToUserId,
       projectId |-> l.project.id,
       teamId |-> l.fresh_project.teamId,
       completedBy |-> l.user.id,
       repository |-> l.payload.repository.name,
       delay |-> delay_info ]

\* the two events github_webhook emits: the module with its rbac and delay
\* dicts, then the analytics event (status: of the module it carries or names)
TaskUpdated(r) ==
  [ event |-> "task_updated", module |-> r,
    teamId |-> r.teamId, userId |-> r.assignedToUserId, projectId |-> r.projectId,
    status |-> r.status,
    predictedDelay |-> r.delay.predictedDelay,
    delayReason |-> r.delay.delayReason ]

\* (an analytics event that names the completing user and no team)
ModuleUpdatedByPusher(r) ==
  [ event |-> "module_updated", module |-> NoResult,
    teamId |-> None,
    userId |-> r.completedBy,
    projectId |-> r.projectId,
    status |-> r.status,
    predictedDelay |-> r.delay.predictedDelay,
    delayReason |-> r.delay.delayReason ]

ModuleUpdated(r) ==
  [ event |-> "module_updated", module |-> NoResult,
    teamId |-> r.teamId,
    userId |-> IF r.assignedToUserId /= None THEN r.assignedToUserId ELSE r.completedBy,
    projectId |-> r.projectId,
    status |-> r.status,
    predictedDelay |-> r.delay.predictedDelay,
    delayReason |-> r.delay.delayReason ]

\* the responses of github_webhook
BadRequest == [code |-> 400, status |-> "error", module |-> NoResult]
Completed(r) == [code |-> 200, status |-> "success", module |-> r]
NoMatch == [code |-> 200, status |-> "success", module |-> NoResult]
ServerError == [code |-> 500, status |-> "error", module |-> NoResult]

\* request.json arrives; without a body the answer is 400; else validate_github_push
\* runs up to its first store call
Receive(p, pl) ==
  /\ pc[p] = "idle"
  /\ loc' = [loc EXCEPT ![p].payload = pl,
                        ![p].excepted = ~NoBody(pl) /\ ExtractRaises(pl)]
  /\ IF NoBody(pl)
       THEN /\ pc' = [pc EXCEPT ![p] = "done"]
            /\ response' = [response EXCEPT ![p] = BadRequest]
       ELSE /\ pc' = [pc EXCEPT ![p] = IF Extracts(pl) THEN "get_user" ELSE "respond"]
            /\ UNCHANGED response
  /\ UNCHANGED <<projects, now, emitted, obs, listed, manager>>

\* line 290: get_user_by_github_username
GetUser(p) ==
  /\ pc[p] = "get_user"
  /\ LET user == GetUserByGithubUsername(loc[p].payload.pusher.name)
     IN /\ loc' = [loc EXCEPT ![p].user = user]
        /\ pc' = [pc EXCEPT ![p] = IF user = NoUser THEN "respond" ELSE "find"]
  /\ obs' = [obs EXCEPT ![p].reads = @ + 1]
  /\ UNCHANGED <<projects, now, emitted, response, before, listed, manager>>

\* line 302: find_module_in_projects reads all projects and scans them
FindModule(p) ==
  /\ pc[p] = "find"
  /\ LET hit == FindModuleInProjects(projects, loc[p].user.id,
                                     loc[p].payload.repository.name, "in-progress")
     IN IF hit.found
          THEN /\ loc' = [loc EXCEPT ![p].project = projects[hit.pi],
                                     ![p].module_index = hit.idx]
               /\ pc' = [pc EXCEPT ![p] = "update"]
          ELSE /\ pc' = [pc EXCEPT ![p] = "respond"]
               /\ UNCHANGED loc
  /\ obs' = [obs EXCEPT ![p].scan = projects, ![p].reads = @ + 1]
  /\ UNCHANGED <<projects, now, emitted, response, before, listed, manager>>

\* (an update that is acknowledged before it is written)
UpdateModuleStatusUnwritten(p) ==
  /\ pc[p] = "update"
  /\ pc' = [pc EXCEPT ![p] = "reread"]
  /\ obs' = [obs EXCEPT ![p].writes = @ + 1]
  /\ UNCHANGED <<projects, now, loc, emitted, response, before, listed, manager>>

\* lines 142-152: the update_one of update_module_status
UpdateModuleStatus(p) ==
  /\ pc[p] = "update"
  /\ LET res == UpdateOne(projects, loc[p].project.id, loc[p].module_index, "completed", now)
     IN /\ projects' = res.projects
        /\ pc' = [pc EXCEPT ![p] = IF res.modified_count > 0 THEN "reread" ELSE "respond"]
  /\ obs' = [obs EXCEPT ![p].writes = @ + 1]
  /\ UNCHANGED <<now, loc, emitted, response, before, listed, manager>>

\* lines 154-155: the module is read back
ReRead(p) ==
  /\ pc[p] = "reread"
  /\ loc' = [loc EXCEPT ![p].updated_module =
               FindOne(projects, loc[p].project.id).modules[loc[p].module_index]]
  /\ pc' = [pc EXCEPT ![p] = "fresh"]
  /\ obs' = [obs EXCEPT ![p].reads = @ + 1]
  /\ UNCHANGED <<projects, now, emitted, response, before, listed, manager>>

\* line 322: the project is read again for its team
FreshProject(p) ==
  /\ pc[p] = "fresh"
  /\ loc' = [loc EXCEPT ![p].fresh_project = FindOne(projects, loc[p].project.id)]
  /\ pc' = [pc EXCEPT ![p] = "estimate"]
  /\ obs' = [obs EXCEPT ![p].reads = @ + 1]
  /\ UNCHANGED <<projects, now, emitted, response, before, listed, manager>>

\* line 346: len(payload.get('commits', [])) raises on null while the result
\* is put together; `except Exception` turns it into None
ResultRaises(pl) == pl.commits = "null"

\* lines 329-353 after the estimate: the result, or None when building it raised
Assemble(p, delay_info) ==
  /\ loc' = [loc EXCEPT ![p].delay_info = delay_info,
                        ![p].result = IF ResultRaises(loc[p].payload) THEN NoResult
                                      ELSE Result(loc[p], delay_info),
                        ![p].excepted = ResultRaises(loc[p].payload)]
  /\ pc' = [pc EXCEPT ![p] = IF ResultRaises(loc[p].payload) THEN "respond" ELSE "emit_task"]

\* lines 325-353: the delay estimate (its aggregate reads the store when the
\* module has a due date), then the result
Estimate(p) ==
  /\ pc[p] = "estimate"
  /\ Assemble(p, EstimateOf(loc[p].updated_module, loc[p].user.id, projects))
  /\ obs' = [obs EXCEPT ![p].reads =
               IF QueriesHistory(loc[p].updated_module) THEN @ + 1 ELSE @]
  /\ UNCHANGED <<projects, now, emitted, response, before, listed, manager>>

\* lines 237-245: the aggregate raises; the estimate degrades, the result stands
EstimateError(p) ==
  /\ pc[p] = "estimate"
  /\ QueriesHistory(loc[p].updated_module)
  /\ Assemble(p, CalculationError)
  /\ obs' = [obs EXCEPT ![p].estimateFailed = TRUE]
  /\ UNCHANGED <<projects, now, emitted, response, before, listed, manager>>

\* lines 357-361: a store call of validate_github_push raises (the store cannot
\* be reached); `except Exception` turns it into None
StoreCalls == {"get_user", "find", "update", "reread", "fresh"}

StoreError(p) ==
  /\ pc[p] \in StoreCalls
  /\ loc' = [loc EXCEPT ![p].excepted = TRUE]
  /\ obs' = [obs EXCEPT ![p].storeFailed = TRUE]
  /\ pc' = [pc EXCEPT ![p] = "respond"]
  /\ UNCHANGED <<projects, now, emitted, response, before, listed, manager>>

\* line 435
EmitTaskUpdated(p) ==
  /\ pc[p] = "emit_task"
  /\ emitted' = [emitted EXCEPT ![p] = Append(@, TaskUpdated(loc[p].result))]
  /\ pc' = [pc EXCEPT ![p] = "emit_module"]
  /\ UNCHANGED <<projects, now, loc, response, obs, before, listed, manager>>

\* line 450
EmitModuleUpdated(p) ==
  /\ pc[p] = "emit_module"
  /\ emitted' = [emitted EXCEPT ![p] = Append(@, ModuleUpdated(loc[p].result))]
  /\ pc' = [pc EXCEPT ![p] = "respond"]
  /\ UNCHANGED <<projects, now, loc, response, obs, before, listed, manager>>

\* lines 463-487: the answer; the no-match summary reads pusher and repository
\* and counts the commits again, outside any try
Answer(l) ==
  IF l.result.ok THEN Completed(l.result)
  ELSE IF \/ Raises(l.payload.pusher) \/ Raises(l.payload.repository)
          \/ ResultRaises(l.payload)
    THEN ServerError
  ELSE NoMatch

\* lines 568-583: the answer of test_webhook to a body that is an object, for
\* the same outcome of validate_github_push
TestNoMatch == [code |-> 200, status |-> "no_match", module |-> NoResult]

TestAnswer(l) ==
  IF l.result.ok THEN Completed(l.result) ELSE TestNoMatch

Respond(p) ==
  /\ pc[p] = "respond"
  /\ response' = [response EXCEPT ![p] = Answer(loc[p])]
  /\ pc' = [pc EXCEPT ![p] = "done"]
  /\ UNCHANGED <<projects, now, loc, emitted, obs, before, listed, manager>>

\* the entry of one module in a listing (lines 598-608, 684-693)
ModuleData(project, module) ==
  [ id |-> module.id,
    status |-> module.status,
    assignedToUserId |-> module.assignedToUserId,
    projectId |-> project.id ]

\* (a listing of the first project only)
FirstProjectModules(projs, i) ==
  IF i > Len(projs) \/ i > 1 THEN <<>>
  ELSE [j \in DOMAIN projs[i].modules |-> ModuleData(projs[i], projs[i].modules[j])]

\* all_modules: the modules of the projects from the i-th on, in store order
RECURSIVE AllModules(_, _)
AllModules(projs, i) ==
  IF i > Len(projs) THEN <<>>
  ELSE [j \in DOMAIN projs[i].modules |-> ModuleData(projs[i], projs[i].modules[j])]
       \o AllModules(projs, i + 1)

\* get_modules formats createdAt with isoformat(), which a value that is no
\* date does not have
IsoformatRaises(projs) ==
  \E pos \in Positions(projs) : projs[pos[1]].modules[pos[2]].createdAt = Malformed

Answered == { q \in Procs : pc[q] = "done" }

\* GET /api/modules: one read of the projects, then the list (500 on an exception)
GetModules ==
  /\ listed' = IF IsoformatRaises(projects)
                 THEN [kind |-> "error", modules |-> <<>>, answered |-> Answered]
                 ELSE [kind |-> "api", modules |-> AllModules(projects, 1),
                       answered |-> Answered]
  /\ UNCHANGED <<projects, now, pc, loc, emitted, response, obs, before, manager>>

\* request_modules: one read of the projects, then modules_snapshot is emitted
HandleRequestModules ==
  /\ listed' = [kind |-> "snapshot", modules |-> AllModules(projects, 1),
                answered |-> Answered]
  /\ UNCHANGED <<projects, now, pc, loc, emitted, response, obs, before, manager>>

\* the read of either listing raises: 500, or an 'error' event
ListingError ==
  /\ listed' = [kind |-> "error", modules |-> <<>>, answered |-> Answered]
  /\ UNCHANGED <<projects, now, pc, loc, emitted, response, obs, before, manager>>

\* time passes
Tick ==
  /\ now < MaxClock
  /\ now' = now + 1
  /\ UNCHANGED <<projects, pc, loc, emitted, response, obs, before, listed, manager>>

Step(p) ==
  \/ GetUser(p)
  \/ FindModule(p)
  \/ UpdateModuleStatus(p)
  \/ ReRead(p)
  \/ FreshProject(p)
  \/ Estimate(p)
  \/ EmitTaskUpdated(p)
  \/ EmitModuleUpdated(p)
  \/ Respond(p)

\* the store cannot be reached
Fail(p) ==
  \/ StoreError(p)
  \/ EstimateError(p)

\* ------------------------------------------------- initial stores, requests
Tracker == <<"T", "r">>     \* repository names; they differ in case only,
tracker == <<"t", "r">>     \* or in more
Other == <<"O", "t">>

\* what a module of an initial store may be: <<user, status, rule, due date>>
ModuleKinds ==
  { <<"U1", "in-progress", Rule(Tracker), 0>>,
    <<"U1", "in-progress", NoRule, NoTime>>,
    <<"U1", "in-progress", Rule(Other), NoTime>>,
    <<"U1", "in-progress", Rule(<<>>), 0>>,
    <<"U2", "in-progress", NoRule, NoTime>>,
    <<"U1", "pending", Rule(Tracker), NoTime>>,
    <<"U1", "completed", Rule(Tracker), 0>> }

\* two projects, the first with a team; the modules of `kinds` up to `split` are
\* embedded in the first, the others in the second
StoreOf(kinds, split) ==
  LET mod(pi, idx, k) == Module(10 * pi + idx, k[1], k[2], k[3], k[4])
  IN << Project(1, "T1", [j \in 1..split |-> mod(1, j, kinds[j])]),
        Project(2, None, [j \in 1..(Len(kinds) - split) |-> mod(2, j, kinds[split + j])]) >>

WideStores ==
  UNION { { StoreOf(ks, split) : ks \in [1..k -> ModuleKinds], split \in 0..k } :
          k \in 0..MaxModules }

\* the stores the concurrent requests start from
RaceStores ==
  { StoreOf(<< <<"U1", "in-progress", Rule(Tracker), 0>> >>, 1),
    StoreOf(<< <<"U1", "in-progress", NoRule, NoTime>>,
               <<"U1", "in-progress", Rule(Tracker), 0>> >>, 1),
    StoreOf(<< <<"U1", "in-progress", Rule(Other), NoTime>>,
               <<"U2", "in-progress", NoRule, NoTime>> >>, 2),
    StoreOf(<< <<"U1", "completed", Rule(Tracker), 0>>,
               <<"U1", "in-progress", Rule(Tracker), NoTime>> >>, 0) }

Push(pusher, repo) == Payload("object", Field("name", pusher), Field("name", repo))

Payloads ==
  { Payload("absent", AbsentP, AbsentR),
    Payload("empty", AbsentP, AbsentR),
    Push("alice", tracker),
    Push("alice", Other),
    Push("carol", tracker),
    Payload("object", AbsentP, Field("name", tracker)),
    Payload("object", Field("name", "alice"), AbsentR),
    Payload("object", NullP, Field("name", tracker)),
    Payload("object", Field("name", "alice"), NullR) }

RacePayloads ==
  { Push("alice", tracker),
    Push("carol", tracker) }

\* ---------------------------------------------------------- specifications
\* Spec: NumProcs requests handled concurrently (one thread each), any
\* interleaving of their store calls and broadcasts, the store reachable.
Init ==
  /\ projects \in RaceStores
  /\ now = 0
  /\ InitRequests

Next ==
  \/ \E p \in Procs : \E pl \in RacePayloads : Receive(p, pl) /\ UNCHANGED before
  \/ \E p \in Procs : Step(p)
  \/ Tick

Spec == Init /\ [][Next]_vars

\* SeqSpec: one event delivered, then redelivered, each delivery handled to its
\* answer before the next arrives; any store of WideStores, any event of
\* Payloads; any store call may fail. The clock is read by the update alone, so
\* time that passes during a request is time that passed before it.
Quiet == \A q \in Procs : pc[q] \in {"idle", "done"}

Deliver ==
  /\ \E pl \in Payloads : Receive(1, pl)
  /\ before' = projects

Redeliver ==
  /\ pc[1] = "done"
  /\ Receive(2, loc[1].payload)
  /\ before' = projects

InitSeq ==
  /\ projects \in WideStores
  /\ now = 0
  /\ InitRequests

NextSeq ==
  \/ Deliver
  \/ Redeliver
  \/ \E p \in Procs : Step(p)
  \/ \E p \in Procs : Fail(p)
  \/ Quiet /\ Tick

SeqSpec == InitSeq /\ [][NextSeq]_vars

\* EstSpec: one push of alice to Tracker, handled to its answer, over the stores
\* the estimator tells apart: the module it completes with any due date, and a
\* history of modules completed before the push. Any store call may fail.
Epoch == (MaxHistory + 1) * DayTicks      \* the history lies before it
Times == Epoch..(Epoch + MaxDays * DayTicks)
DueDates == {NoTime, Malformed} \cup Times

\* h modules of alice, the j-th completed j days and a part of a day after its
\* creation
RisingHistory(h) ==
  [j \in 1..h |->
     ModuleDoc(20 + j, "U1", "completed", NoRule, NoTime, 0, j * DayTicks + (j % DayTicks))]

\* modules the aggregate leaves out, and one it takes
MixedHistory ==
  << ModuleDoc(21, "U2", "completed", NoRule, NoTime, 0, DayTicks),
     ModuleDoc(22, "U1", "completed", NoRule, NoTime, NoTime, DayTicks),
     ModuleDoc(23, "U1", "pending", NoRule, NoTime, 0, NoTime),
     ModuleDoc(24, "U1", "completed", NoRule, NoTime, 0, DayTicks) >>

\* completed modules whose timestamps are no dates
BadHistories ==
  { << ModuleDoc(21, "U1", "completed", NoRule, NoTime, Malformed, DayTicks) >>,
    << ModuleDoc(21, "U1", "completed", NoRule, NoTime, 0, Malformed) >> }

Histories == { RisingHistory(h) : h \in 0..MaxHistory } \cup {MixedHistory} \cup BadHistories

\* the module of alice in progress for Tracker in the project of team T1, the
\* history in a project without team
EstStoreOf(due, created, hist) ==
  << Project(1, "T1",
       << ModuleDoc(11, "U1", "in-progress", Rule(Tracker), due, created, NoTime) >>),
     Project(2, None, hist) >>

EstStores ==
  { EstStoreOf(due, created, hist) :
      due \in DueDates, created \in {0, NoTime}, hist \in Histories }

EstDeliver ==
  /\ Receive(1, Push("alice", Tracker))
  /\ before' = projects

InitEst ==
  /\ projects \in EstStores
  /\ now \in Times
  /\ InitRequests

NextEst ==
  \/ EstDeliver
  \/ Step(1)
  \/ Fail(1)

EstSpec == InitEst /\ [][NextEst]_vars

\* ListSpec: the deliveries of SeqSpec over the stores of Spec, an event whose
\* commits are null among the events, and at any moment a dashboard that asks for the list of modules, over HTTP or over the
\* socket; any store call may fail.
ListPayloads == RacePayloads \cup { NullCommits(Push("alice", tracker)) }

ListDeliver ==
  /\ \E pl \in ListPayloads : Receive(1, pl)
  /\ before' = projects

InitList ==
  /\ projects \in RaceStores
  /\ now = 0
  /\ InitRequests

NextList ==
  \/ ListDeliver
  \/ Redeliver
  \/ \E p \in Procs : Step(p)
  \/ \E p \in Procs : Fail(p)
  \/ GetModules
  \/ HandleRequestModules
  \/ ListingError
  \/ Quiet /\ Tick

ListSpec == InitList /\ [][NextList]_vars

\* ------------------------------------------------- the ngrok tunnel manager
\* (src/server/ngrok_manager.py)
MAX_RESTART_ATTEMPTS == 5
max_retries == 10

\* the validation engine, which the manager does not touch
engine == <<projects, now, pc, loc, emitted, response, obs, before, listed>>

\* what GET /api/tunnels answers: a RequestException (ok FALSE), or a list of
\* tunnels, each with proto and public_url
Tunnels == [proto : {"http", "https"}, public_url : {"a.ngrok.io", "b.ngrok.io"}]
TunnelLists == UNION { [1..n -> Tunnels] : n \in 1..MaxTunnels }
RequestException == [ok |-> FALSE, tunnels |-> <<>>]
Replies == {RequestException} \cup { [ok |-> TRUE, tunnels |-> t] : t \in {<<>>} \cup TunnelLists }

\* (the URL of the first tunnel, whatever its proto)
FirstPublicUrl(tunnels) == tunnels[1].public_url

\* lines 118-123: the first https tunnel, else the first tunnel
PublicUrl(tunnels) ==
  IF \E i \in DOMAIN tunnels : tunnels[i].proto = "https"
  THEN tunnels[CHOOSE i \in DOMAIN tunnels :
                 /\ tunnels[i].proto = "https"
                 /\ \A j \in 1..(i - 1) : tunnels[j].proto /= "https"].public_url
  ELSE tunnels[1].public_url

\* (a health check that never finds the tunnel)
CheckTunnelHealthNever(reply) == FALSE

\* check_tunnel_health: the API answered with at least one tunnel
CheckTunnelHealth(reply) == reply.ok /\ Len(reply.tunnels) > 0

\* cleanup(): the process (if any was ever started) is terminated, the URL file removed
Cleanup(m) ==
  [m EXCEPT !.ngrok_process = IF @ = None THEN None ELSE "exited",
            !.url_file = FALSE]

\* sys.exit(code)
Exit(m, code) == [m EXCEPT !.pc = "exit", !.status = code]

\* main(), lines 249-265: the Flask server answers or the operator says 'y',
\* else the manager leaves with status 0
Main ==
  /\ manager.pc = "main"
  /\ \E continue \in BOOLEAN :
       manager' = IF continue THEN [manager EXCEPT !.pc = "start_ngrok"]
                  ELSE Exit(manager, 0)
  /\ UNCHANGED engine

\* start_ngrok(): Popen raises (ngrok_process keeps its value), or the process
\* has exited after 3 s, or it runs; both failures count in restart_count.
\* Called by main (lines 268-270) and by attempt_restart (lines 225, 234-235).
StartNgrok ==
  /\ manager.pc = "start_ngrok"
  /\ \E outcome \in {"raises", "exited", "running"} :
       LET started == [manager EXCEPT !.ngrok_process =
                         IF outcome = "raises" THEN @ ELSE outcome]
           failed  == [started EXCEPT !.restart_count = @ + 1]
       IN manager' =
            IF outcome = "running"
            THEN [started EXCEPT !.pc = "get_public_url", !.attempt = 0,
                                 !.requests = 0, !.first = <<>>]
            ELSE IF manager.caller = "main" THEN Exit(failed, 1)
            ELSE [failed EXCEPT !.pc = "monitor", !.failed = @ + 1]
  /\ UNCHANGED engine

\* get_public_url(), one turn of its loop: one request to the API
GetPublicUrl ==
  /\ manager.pc = "get_public_url"
  /\ \E reply \in Replies :
       LET asked == [manager EXCEPT !.requests = @ + 1,
                       !.first = IF @ = <<>> THEN reply.tunnels ELSE @]
       IN manager' =
            IF ~reply.ok \/ reply.tunnels = <<>>
            THEN IF manager.attempt < max_retries - 1
                 THEN [asked EXCEPT !.attempt = @ + 1]
                 ELSE [asked EXCEPT !.pc = "got_url", !.url = None]
            ELSE [asked EXCEPT !.pc = "got_url", !.url = PublicUrl(reply.tunnels)]
  /\ UNCHANGED engine

\* `if not url` of main (lines 276-279) and `if url` of attempt_restart (228, 232-233)
GotUrl ==
  /\ manager.pc = "got_url"
  /\ manager' =
       IF manager.url /= None THEN [manager EXCEPT !.pc = "save"]
       ELSE IF manager.caller = "main"
       THEN [Exit(Cleanup(manager), 1) EXCEPT !.cleaned = TRUE]
       ELSE [manager EXCEPT !.pc = "monitor", !.failed = @ + 1]
  /\ UNCHANGED engine

\* save_url_to_file (the write may fail, which it only prints), display_webhook_info,
\* and in attempt_restart the reset of restart_count; then the monitor loop
SaveUrl ==
  /\ manager.pc = "save"
  /\ \E written \in BOOLEAN :
       manager' = [manager EXCEPT
                     !.pc = "monitor",
                     !.url_file = @ \/ written,
                     !.restart_count = IF manager.caller = "main" THEN @ ELSE 0,
                     !.begun = 0,
                     !.failed = 0]
  /\ UNCHANGED engine

\* monitor_tunnel, lines 186-198: poll() of the process, then the API
HealthCheck ==
  /\ manager.pc = "monitor"
  /\ \E reply \in {RequestException, [ok |-> TRUE, tunnels |-> <<>>]}
                  \cup { [ok |-> TRUE, tunnels |-> <<t>>] : t \in Tunnels } :
       IF manager.ngrok_process = "exited"
       THEN manager' = [manager EXCEPT
                          !.pc = "attempt_restart",
                          !.observed = [process |-> "exited", ok |-> FALSE, tunnels |-> 0]]
       ELSE manager' = [manager EXCEPT
                          !.pc = IF CheckTunnelHealth(reply) THEN "healthy"
                                 ELSE "attempt_restart",
                          !.observed = [process |-> manager.ngrok_process,
                                        ok |-> reply.ok, tunnels |-> Len(reply.tunnels)]]
  /\ UNCHANGED engine

\* line 201, and round the loop
Healthy ==
  /\ manager.pc = "healthy"
  /\ manager' = [manager EXCEPT !.pc = "monitor"]
  /\ UNCHANGED engine

\* attempt_restart, lines 213-223
AttemptRestart ==
  /\ manager.pc = "attempt_restart"
  /\ manager' =
       IF manager.restart_count >= MAX_RESTART_ATTEMPTS
       THEN [Exit(Cleanup(manager), 1) EXCEPT !.cleaned = TRUE, !.gave_up = TRUE]
       ELSE [Cleanup(manager) EXCEPT
               !.pc = "start_ngrok", !.caller = "attempt_restart",
               !.restart_count = @ + 1, !.url = None, !.begun = @ + 1]
  /\ UNCHANGED engine

\* signal_handler: SIGINT or SIGTERM at any moment
SignalHandler ==
  /\ manager.pc /= "exit"
  /\ manager' = [Exit(Cleanup(manager), 0) EXCEPT !.cleaned = TRUE]
  /\ UNCHANGED engine

\* the ngrok process ends by itself
ProcessExits ==
  /\ manager.pc /= "exit"
  /\ manager.ngrok_process = "running"
  /\ manager' = [manager EXCEPT !.ngrok_process = "exited"]
  /\ UNCHANGED engine

\* the manager's own steps
Run ==
  \/ Main
  \/ StartNgrok
  \/ GetPublicUrl
  \/ GotUrl
  \/ SaveUrl
  \/ HealthCheck
  \/ Healthy
  \/ AttemptRestart

\* TunnelSpec: the manager from main() on; a URL file of an earlier run may
\* still lie there. The validation engine stands idle.
InitTunnel ==
  /\ projects = <<>>
  /\ now = 0
  /\ listed = NoListing
  /\ pc = [p \in Procs |-> "idle"]
  /\ loc = [p \in Procs |-> InitLoc]
  /\ emitted = [p \in Procs |-> <<>>]
  /\ response = [p \in Procs |-> NoResponse]
  /\ obs = [p \in Procs |-> InitObs]
  /\ before = projects
  /\ \E stale \in BOOLEAN : manager = [ManagerLoaded EXCEPT !.url_file = stale]

NextTunnel ==
  \/ Main
  \/ StartNgrok
  \/ GetPublicUrl
  \/ GotUrl
  \/ SaveUrl
  \/ HealthCheck
  \/ Healthy
  \/ AttemptRestart
  \/ SignalHandler
  \/ ProcessExits

TunnelSpec == InitTunnel /\ [][NextTunnel]_vars

\* RunSpec: the runs no signal ends, in which the manager goes on as long as
\* it has a step to take
NextRun ==
  \/ Main
  \/ StartNgrok
  \/ GetPublicUrl
  \/ GotUrl
  \/ SaveUrl
  \/ HealthCheck
  \/ Healthy
  \/ AttemptRestart
  \/ ProcessExits

RunSpec == InitTunnel /\ [][NextRun]_vars /\ WF_vars(Run)

\* ------------------------------------------------------------- properties
ModuleAt(projs, pos) == projs[pos[1]].modules[pos[2]]

\* request p chose a module, and which (project ids are store positions)
Selected(p) == loc[p].module_index /= 0
Target(p) == <<loc[p].project.id, loc[p].module_index>>

\* the event of request p
Pusher(p) == loc[p].payload.pusher
Repository(p) == loc[p].payload.repository
Usernames == { u.githubUsername : u \in Users }
UserOf(name) == CHOOSE u \in Users : u.githubUsername = name

\* two names are the same up to the case of their letters
SameLetter(a, b) == a = b \/ {a, b} \in { {"T", "t"}, {"O", "o"} }
EqualIgnoringCase(s, t) ==
  /\ Len(s) = Len(t)
  /\ \A i \in DOMAIN s : SameLetter(s[i], t[i])

\* in SeqSpec: the delivery being handled, or handled last
Current == IF pc[2] /= "idle" THEN 2 ELSE 1
Delivered(p) == p \in {1, 2} /\ pc[p] /= "idle" /\ p = Current

\* C1: two concurrent pushes of one pusher and repository that both chose the
\* same in-progress module: exactly one returns a result, the other gets the
\* no-match answer, and one task_updated/module_updated pair is emitted in all.
C1_ExactlyOneCompletes ==
  \A p \in Procs : \A q \in Procs :
    ( /\ p /= q
      /\ pc[p] = "done" /\ pc[q] = "done"
      /\ loc[p].payload = loc[q].payload
      /\ Selected(p) /\ Selected(q) /\ Target(p) = Target(q) )
    => /\ loc[p].result.ok /= loc[q].result.ok
       /\ NoMatch \in {response[p], response[q]}
       /\ Len(emitted[p]) + Len(emitted[q]) = 2

\* C2: the update of update_module_status is conditional: on a module that is
\* no longer in-progress it changes nothing and reports failure.
C2_UpdateIsConditional ==
  [][ \A p \in Procs :
        ( /\ pc[p] = "update" /\ pc'[p] /= "update"
          /\ ModuleAt(projects, Target(p)).status /= "in-progress" )
        => /\ projects' = projects
           /\ pc'[p] = "respond" ]_vars

\* C3: with a rule-matching module and a module without rule both in-progress
\* for the user, the matcher chooses a rule-matching one.
RuleMatching(m, uid, repo) ==
  /\ m.assignedToUserId = uid /\ m.status = "in-progress"
  /\ m.validationRule.present /\ m.validationRule.githubRepo /= <<>>
  /\ EqualIgnoringCase(m.validationRule.githubRepo, repo)

WithoutRule(m, uid) ==
  /\ m.assignedToUserId = uid /\ m.status = "in-progress"
  /\ ~m.validationRule.present

C3_RuleMatchHasPriority ==
  \A p \in Procs :
    ( /\ pc[p] \notin {"idle", "get_user", "find"}
      /\ \E pos \in Positions(obs[p].scan) :
           RuleMatching(ModuleAt(obs[p].scan, pos), loc[p].user.id, Repository(p).name)
      /\ \E pos \in Positions(obs[p].scan) :
           WithoutRule(ModuleAt(obs[p].scan, pos), loc[p].user.id) )
    => /\ Selected(p)
       /\ RuleMatching(ModuleAt(obs[p].scan, Target(p)), loc[p].user.id, Repository(p).name)

\* C4: a module whose rule names a repository other than the event's (ignoring
\* case) is never chosen and never changed by the event; when the user's
\* in-progress modules are all such, the event returns no result.
RuleMismatch(m, repo) ==
  /\ m.validationRule.present /\ m.validationRule.githubRepo /= <<>>
  /\ ~EqualIgnoringCase(m.validationRule.githubRepo, repo)

C4_MismatchedRuleNeverSelected ==
  \A p \in Procs :
    Delivered(p) =>
      /\ \A pos \in Positions(before) :
           RuleMismatch(ModuleAt(before, pos), Repository(p).name)
           => /\ ~(Selected(p) /\ Target(p) = pos)
              /\ ModuleAt(projects, pos) = ModuleAt(before, pos)
      /\ ( /\ Pusher(p).name \in Usernames
           /\ \A pos \in Positions(before) :
                ( /\ ModuleAt(before, pos).assignedToUserId = UserOf(Pusher(p).name).id
                  /\ ModuleAt(before, pos).status = "in-progress" )
                => RuleMismatch(ModuleAt(before, pos), Repository(p).name) )
         => /\ ~loc[p].result.ok
            /\ pc[p] = "done" => response[p] \in {NoMatch, ServerError}

C4_Witness ==
  /\ pc[1] = "done" /\ pc[2] = "idle"
  /\ loc[1].payload = Push("alice", tracker)
  /\ before = StoreOf(<< <<"U1", "in-progress", Rule(Other), NoTime>> >>, 1)
  /\ projects = before
  /\ obs[1].reads = 2
  /\ response[1] = NoMatch

\* C5 as stated: after a delivery returned a result, the redelivery of the
\* same event (the store reachable) returns no result and leaves the store as
\* it found it.
C5_ReplayIsNoMatch ==
  ( /\ pc[1] = "done" /\ pc[2] = "done"
    /\ loc[1].result.ok
    /\ ~obs[2].storeFailed )
  => /\ ~loc[2].result.ok
     /\ response[2] = NoMatch
     /\ projects = before

\* another module the event could complete: in-progress, of the pusher's
\* user, with no repository in its rule or with the event's repository
Candidate(m, uid, repo) ==
  /\ m.assignedToUserId = uid /\ m.status = "in-progress"
  /\ ~RuleMismatch(m, repo)

\* C5, amended: ... provided the store the redelivery finds holds no other
\* in-progress module of the user that the event could complete.
C5_ReplayIsNoMatchWithoutOtherCandidate ==
  ( /\ pc[1] = "done" /\ pc[2] = "done"
    /\ loc[1].result.ok
    /\ \A pos \in Positions(before) :
         ~Candidate(ModuleAt(before, pos), loc[1].user.id, Repository(1).name) )
  => /\ ~loc[2].result.ok
     /\ response[2] = NoMatch
     /\ projects = before

C5_Witness ==
  /\ pc[1] = "done" /\ pc[2] = "done"
  /\ loc[1].result.ok
  /\ loc[2].payload = loc[1].payload
  /\ obs[2].reads = 2 /\ ~obs[2].storeFailed
  /\ ModuleAt(before, Target(1)).status = "completed"
  /\ \A pos \in Positions(before) :
       ~Candidate(ModuleAt(before, pos), loc[1].user.id, Repository(1).name)
  /\ response[2] = NoMatch

\* C6: an event whose pusher name is the external username of no user returns
\* no result, changes no project or module, and emits nothing.
C6_UnknownPusherNoMatch ==
  \A p \in Procs :
    ( /\ Delivered(p)
      /\ Pusher(p).kind = "name" /\ Pusher(p).name \notin Usernames )
    => /\ ~loc[p].result.ok
       /\ obs[p].writes = 0
       /\ projects = before
       /\ emitted[p] = <<>>
       /\ pc[p] \in {"get_user", "respond", "done"}

C6_Witness ==
  /\ pc[1] = "done" /\ pc[2] = "idle"
  /\ loc[1].payload = Push("carol", tracker)
  /\ obs[1].reads = 1 /\ ~obs[1].storeFailed
  /\ \E pos \in Positions(projects) : ModuleAt(projects, pos).status = "in-progress"
  /\ response[1] = NoMatch

\* C7: an event without pusher.name or without repository.name returns no
\* result without reading or writing the store and without a broadcast; when
\* no field is null, nothing is raised on the way and the answer is the
\* no-match answer.
C7_MissingFieldsNoMatch ==
  \A p \in Procs :
    ( /\ Delivered(p)
      /\ loc[p].payload.body = "object"
      /\ Pusher(p).kind = "absent" \/ Repository(p).kind = "absent" )
    => /\ ~loc[p].result.ok
       /\ obs[p].reads = 0 /\ obs[p].writes = 0
       /\ projects = before
       /\ emitted[p] = <<>>
       /\ pc[p] \in {"respond", "done"}
       /\ ~obs[p].storeFailed
       /\ (Pusher(p).kind /= "null" /\ Repository(p).kind /= "null")
          => /\ ~loc[p].excepted
             /\ pc[p] = "done" => response[p] = NoMatch

C7_Witness ==
  /\ pc[1] = "done" /\ pc[2] = "idle"
  /\ loc[1].payload = Payload("object", Field("name", "alice"), AbsentR)
  /\ \E pos \in Positions(projects) :
       Candidate(ModuleAt(projects, pos), "U1", <<>>)
  /\ response[1] = NoMatch

\* C8: completed is terminal, and no module is completed by two events: a
\* module that is completed stays completed, and no two requests hold a
\* result for the same module.
C8_CompletedOnceAndTerminal ==
  [][ /\ \A pos \in Positions(projects) :
           ModuleAt(projects, pos).status = "completed"
           => ModuleAt(projects', pos).status = "completed"
      /\ \A p \in Procs : \A q \in Procs :
           (p /= q /\ loc'[p].result.ok /\ loc'[q].result.ok)
           => loc'[p].result.id /= loc'[q].result.id ]_vars

\* C9: one event changes at most the module it chose, and of it only status
\* and completedAt; the users, the other modules and the other fields of the
\* projects stay as they were.
SameButCompletion(m, n) ==
  [m EXCEPT !.status = n.status, !.completedAt = n.completedAt] = n

C9_FrameOfOneEvent ==
  \A p \in Procs :
    Delivered(p) =>
      /\ Len(projects) = Len(before)
      /\ \A i \in DOMAIN before :
           /\ projects[i].id = before[i].id
           /\ projects[i].teamId = before[i].teamId
           /\ Len(projects[i].modules) = Len(before[i].modules)
      /\ \A pos \in Positions(before) :
           IF Selected(p) /\ Target(p) = pos
             THEN SameButCompletion(ModuleAt(before, pos), ModuleAt(projects, pos))
             ELSE ModuleAt(projects, pos) = ModuleAt(before, pos)
      /\ obs[p].writes <= 1

C9_Witness ==
  /\ pc[1] = "done" /\ pc[2] = "idle"
  /\ loc[1].result.ok
  /\ Cardinality(Positions(before)) = 2
  /\ ModuleAt(before, Target(1)).status = "in-progress"
  /\ ModuleAt(projects, Target(1)).status = "completed"
  /\ ModuleAt(projects, Target(1)).completedAt = now
  /\ \E pos \in Positions(before) :
       pos /= Target(1) /\ Candidate(ModuleAt(before, pos), "U1", Repository(1).name)

\* C10: a request during which the store could not be reached ends in an
\* answer that differs from the no-match answer.
C10_StoreFailureIsDistinct ==
  \A p \in Procs :
    (pc[p] = "done" /\ obs[p].storeFailed) => response[p] /= NoMatch

\* request p came to call the estimator, and the call is over
Estimated(p) == loc[p].fresh_project /= NoProject /\ pc[p] /= "estimate"

\* a timestamp of a module of the user's history is no date
BadTimestamp(user_id) ==
  \E pos \in Positions(projects) :
    LET mod == ModuleAt(projects, pos)
    IN /\ mod.assignedToUserId = user_id
       /\ mod.status = "completed"
       /\ Malformed \in {mod.createdAt, mod.completedAt}

\* the estimator of request p failed after its due-date check
EstimatorFailed(p) ==
  /\ Estimated(p)
  /\ loc[p].updated_module.dueDate /= NoTime
  /\ \/ obs[p].estimateFailed
     \/ loc[p].updated_module.dueDate = Malformed
     \/ BadTimestamp(loc[p].user.id)

\* C11: when the estimator fails after its due-date check (a due date or a
\* historical timestamp that is no date, or a history query that fails) the
\* estimate is exactly {0, 'Calculation error', 'low', no average, 0 points},
\* and the push still returns a result that carries it.
C11_EstimatorFailureIsContained ==
  \A p \in Procs :
    EstimatorFailed(p) =>
      /\ loc[p].result.ok
      /\ loc[p].result.status = "completed"
      /\ loc[p].result.delay =
           [ predictedDelay |-> 0,
             delayReason |-> [text |-> "Calculation error", days |-> 0],
             confidence |-> "low",
             avgCompletionTime |-> [isNone |-> TRUE, tenths |-> 0],
             historicalDataPoints |-> 0 ]
      /\ pc[p] = "done" =>
           /\ response[p].code = 200
           /\ response[p].module = loc[p].result

C11_Witness ==
  /\ pc[1] = "done"
  /\ EstimatorFailed(1)
  /\ ~obs[1].estimateFailed
  /\ loc[1].updated_module.dueDate /= Malformed
  /\ response[1].module.ok
  /\ response[1].module.delay.delayReason.text = "Calculation error"

\* request p returned a result whose estimate was computed, not defaulted
Computed(p) ==
  /\ loc[p].result.ok
  /\ loc[p].updated_module.dueDate \notin {NoTime, Malformed}
  /\ ~EstimatorFailed(p)

\* C12: a completion k whole days after the due date gives delay k and
\* 'Completed k days late', one at the due date gives 0 and 'Completed on
\* time', one k whole days before it gives -k and 'Completed k days early';
\* the completion time is the one the update stored.
C12_DelaySign ==
  \A p \in Procs :
    Computed(p) =>
      LET completedAt == loc[p].updated_module.completedAt
          dueDate == loc[p].updated_module.dueDate
          delay == loc[p].result.delay
      IN /\ completedAt = now
         /\ ModuleAt(projects, Target(p)).completedAt = completedAt
         /\ \A k \in 1..MaxDays :
              /\ completedAt - dueDate = k * DayTicks =>
                   /\ delay.predictedDelay = k
                   /\ delay.delayReason = [text |-> "late", days |-> k]
              /\ dueDate - completedAt = k * DayTicks =>
                   /\ delay.predictedDelay = -k
                   /\ delay.delayReason = [text |-> "early", days |-> k]
         /\ completedAt = dueDate =>
              /\ delay.predictedDelay = 0
              /\ delay.delayReason = [text |-> "on time", days |-> 0]

C12_Witness ==
  /\ pc[1] = "done"
  /\ Computed(1)
  /\ loc[1].updated_module.dueDate - loc[1].updated_module.completedAt = 2 * DayTicks
  /\ response[1].module.delay.predictedDelay = -2

\* the modules of the store that are data points of a user: completed by the
\* user, with both timestamps
DataPoints(projs, user_id) ==
  { pos \in Positions(projs) :
      LET mod == ModuleAt(projs, pos)
      IN /\ mod.assignedToUserId = user_id
         /\ mod.status = "completed"
         /\ mod.createdAt /= NoTime
         /\ mod.completedAt /= NoTime }

AtMost(n, limit) == IF n > limit THEN limit ELSE n

\* C13: the confidence is 'low' for 0 or 1 data points, 'medium' for 2 to 4,
\* 'high' for 5 or more, and the count reported is the number of data points
\* the history query returned.
C13_ConfidenceThresholds ==
  \A p \in Procs :
    Computed(p) =>
      LET delay == loc[p].result.delay
          n == delay.historicalDataPoints
      IN /\ n = AtMost(Cardinality(DataPoints(projects, loc[p].user.id)), 20)
         /\ n \in {0, 1} => delay.confidence = "low"
         /\ n \in 2..4 => delay.confidence = "medium"
         /\ n >= 5 => delay.confidence = "high"

C13_Witness ==
  /\ pc[1] = "done"
  /\ Computed(1)
  /\ response[1].module.delay.historicalDataPoints = 5
  /\ response[1].module.delay.confidence = "high"

\* C14: for a module without due date the estimate is exactly {0, 'No due date
\* set', 'n/a', no average, 0 points}, and the history is not queried: the
\* request read the store four times (the user, the projects, the updated
\* module, the project again), and no history query failed.
C14_NoDueDate ==
  \A p \in Procs :
    (Estimated(p) /\ loc[p].updated_module.dueDate = NoTime) =>
      /\ loc[p].result.ok
      /\ loc[p].result.delay =
           [ predictedDelay |-> 0,
             delayReason |-> [text |-> "No due date set", days |-> 0],
             confidence |-> "n/a",
             avgCompletionTime |-> [isNone |-> TRUE, tenths |-> 0],
             historicalDataPoints |-> 0 ]
      /\ obs[p].reads = 4
      /\ ~obs[p].estimateFailed

C14_Witness ==
  /\ pc[1] = "done"
  /\ Estimated(1)
  /\ loc[1].updated_module.dueDate = NoTime
  /\ DataPoints(projects, "U1") /= {}
  /\ response[1].module.delay.confidence = "n/a"

\* C15: the data points of an estimate are the modules the user had completed
\* before the event, with both timestamps: the module the event completes is
\* not among them, nor are modules of other users or modules not completed, and
\* there are never more than 20.
C15_HistoryIsEarlierCompletions ==
  \A p \in Procs :
    Computed(p) =>
      /\ loc[p].result.delay.historicalDataPoints =
           AtMost(Cardinality(DataPoints(before, loc[p].user.id)), 20)
      /\ Target(p) \notin DataPoints(before, loc[p].user.id)

\* C16: a request that obtained a result has emitted, when it answers, exactly
\* one task_updated and then exactly one module_updated; the routing metadata of
\* the first (teamId, assignedToUserId, projectId) are the result's, the team
\* being the project's; the second carries the same project, team, user, status
\* and delay. A request without result has emitted nothing.
C16_OnePairPerCompletion ==
  \A p \in Procs :
    LET r == loc[p].result
        e == emitted[p]
    IN /\ ~r.ok => e = <<>>
       /\ (r.ok /\ pc[p] \in {"respond", "done"}) =>
            /\ Len(e) = 2
            /\ e[1].event = "task_updated"
            /\ e[1].module = r
            /\ e[1].teamId = r.teamId
            /\ e[1].userId = r.assignedToUserId
            /\ e[1].projectId = r.projectId
            /\ r.teamId = projects[r.projectId].teamId
            /\ e[2].event = "module_updated"
            /\ e[2].projectId = r.projectId
            /\ e[2].teamId = r.teamId
            /\ e[2].userId = r.assignedToUserId
            /\ e[2].status = r.status
            /\ e[2].predictedDelay = r.delay.predictedDelay
            /\ e[2].delayReason = r.delay.delayReason
       /\ pc[p] = "done" => response[p].module = r

C16_Witness ==
  /\ pc[1] = "done"
  /\ response[1].module.ok
  /\ response[1].module.assignedToUserId /= None
  /\ Len(emitted[1]) = 2
  /\ emitted[1][2].teamId = "T1"
  /\ pc[2] = "done"
  /\ ~response[2].module.ok
  /\ emitted[2] = <<>>

\* C17: the endpoint answers 400 only to a request without body; to every body
\* that is present, one whose pusher, repository, ref and commits are all
\* missing or null included, it answers 200, without a result when the pusher
\* or the repository name is missing.
C17_BadRequestOnlyWithoutBody ==
  \A p \in Procs :
    pc[p] = "done" =>
      LET pl == loc[p].payload
      IN /\ response[p].code = 400 <=> pl.body = "absent"
         /\ pl.body /= "absent" =>
              /\ response[p].code = 200
              /\ (pl.pusher.kind /= "name" \/ pl.repository.kind /= "name") =>
                   ~response[p].module.ok

\* C18: the answer tells a match from a no-match by its status field, and it
\* embeds the module exactly when there was a match: of two events answered
\* with 200 while the store could be reached, one with a result and one
\* without, the status fields differ, at /webhook/github and at /webhook/test
\* alike.
C18_StatusTellsMatchFromNoMatch ==
  \A p \in Procs : \A q \in Procs :
    ( /\ pc[p] = "done" /\ response[p].code = 200 /\ ~obs[p].storeFailed
      /\ pc[q] = "done" /\ response[q].code = 200 /\ ~obs[q].storeFailed ) =>
      /\ response[p].module.ok <=> loc[p].result.ok
      /\ TestAnswer(loc[p]).module.ok <=> loc[p].result.ok
      /\ (loc[p].result.ok /\ ~loc[q].result.ok) =>
           /\ response[p].status /= response[q].status
           /\ TestAnswer(loc[p]).status /= TestAnswer(loc[q]).status

\* the store of the scenario: alice's module in progress for Tracker, due at
\* the start of a day, is the only module
ScenarioStore(due) ==
  /\ due \in Times
  /\ due % DayTicks = 0
  /\ \E created \in {0, NoTime} : before = EstStoreOf(due, created, <<>>)

\* C19: alice (U1) has a single in-progress module with rule repository
\* 'Tracker', due on some day; her push to 'Tracker' is processed two days
\* later (at any time of that day), the store being reachable. Then the module
\* is completed, the delay is 2 with reason 'Completed 2 days late', and the
\* broadcast carries the project's team and assignedToUserId U1.
C19_TwoDaysLate ==
  \A due \in Times :
    ( /\ pc[1] = "done"
      /\ ScenarioStore(due)
      /\ loc[1].payload = Push("alice", Tracker)
      /\ now - due \in (2 * DayTicks)..(3 * DayTicks - 1)
      /\ ~obs[1].storeFailed /\ ~obs[1].estimateFailed ) =>
      /\ ModuleAt(projects, <<1, 1>>).status = "completed"
      /\ response[1].code = 200
      /\ response[1].module.ok
      /\ response[1].module.id = ModuleAt(before, <<1, 1>>).id
      /\ response[1].module.delay.predictedDelay = 2
      /\ response[1].module.delay.delayReason = [text |-> "late", days |-> 2]
      /\ Len(emitted[1]) = 2
      /\ emitted[1][1].event = "task_updated"
      /\ emitted[1][1].teamId = "T1"
      /\ emitted[1][1].userId = "U1"

C19_Witness ==
  /\ pc[1] = "done"
  /\ ScenarioStore(Epoch)
  /\ now = Epoch + 2 * DayTicks + 1
  /\ ~obs[1].storeFailed /\ ~obs[1].estimateFailed
  /\ response[1].module.delay.predictedDelay = 2
  /\ emitted[1][1].teamId = "T1"

\* the case of C20: a delivery answered, the store reachable; the pusher is a
\* user, the repository name is not empty; in the store the delivery found,
\* none of the user's in-progress modules has a rule matching the repository
\* and at least one has no rule at all
FallbackCase(p) ==
  /\ Delivered(p) /\ pc[p] = "done"
  /\ ~obs[p].storeFailed
  /\ Pusher(p).kind = "name" /\ Pusher(p).name \in Usernames
  /\ Repository(p).kind = "name" /\ Repository(p).name /= <<>>
  /\ \A pos \in Positions(before) :
       ~RuleMatching(ModuleAt(before, pos), UserOf(Pusher(p).name).id, Repository(p).name)
  /\ \E pos \in Positions(before) :
       WithoutRule(ModuleAt(before, pos), UserOf(Pusher(p).name).id)

WithoutRepository(m, uid) ==
  /\ m.assignedToUserId = uid /\ m.status = "in-progress"
  /\ ~m.validationRule.present \/ m.validationRule.githubRepo = <<>>

Shows(listing, project_id, id, status) ==
  /\ \E i \in DOMAIN listing.modules :
       listing.modules[i].id = id /\ listing.modules[i].projectId = project_id
  /\ \A i \in DOMAIN listing.modules :
       (listing.modules[i].id = id /\ listing.modules[i].projectId = project_id)
       => listing.modules[i].status = status

ListsEach(listing, projs) ==
  /\ Len(listing.modules) = Cardinality(Positions(projs))
  /\ \A pos \in Positions(projs) :
       Cardinality({ i \in DOMAIN listing.modules :
                       /\ listing.modules[i].projectId = projs[pos[1]].id
                       /\ listing.modules[i].id = ModuleAt(projs, pos).id }) = 1
  /\ \A pos \in Positions(projs) :
       Shows(listing, projs[pos[1]].id, ModuleAt(projs, pos).id, ModuleAt(projs, pos).status)

\* C22: a snapshot request emits one entry for every module of every project
\* in the store at that moment, none left out and none twice, each with the
\* module's current status, and it leaves the store as it was.
C22_SnapshotListsEveryModule ==
  [][ (listed' /= listed /\ listed'.kind = "snapshot")
      => (projects' = projects /\ ListsEach(listed', projects)) ]_vars

C22_Witness ==
  /\ listed.kind = "snapshot"
  /\ ListsEach(listed, projects)
  /\ \E pos \in Positions(projects) : ModuleAt(projects, pos).status = "completed"
  /\ \E pos \in Positions(projects) : ModuleAt(projects, pos).status = "in-progress"
  /\ projects /= before

\* assigned to the user the pusher resolves to, and in-progress
OfPusherInProgress(m, p) ==
  /\ Pusher(p).kind = "name" /\ Pusher(p).name \in Usernames
  /\ m.assignedToUserId = UserOf(Pusher(p).name).id
  /\ m.status = "in-progress"

\* C23: the module an event chooses was, in the store as scanned, assigned to
\* the user the pusher resolves to and in-progress; no module assigned to
\* another user, and none that was pending or completed when scanned, is
\* changed by the event.
C23_OnlyOwnInProgress ==
  \A p \in Procs :
    Delivered(p) =>
      /\ Selected(p) => OfPusherInProgress(ModuleAt(obs[p].scan, Target(p)), p)
      /\ \A pos \in Positions(before) :
           ModuleAt(projects, pos) /= ModuleAt(before, pos)
           => /\ obs[p].scan = before
              /\ OfPusherInProgress(ModuleAt(before, pos), p)

C23_Witness ==
  /\ pc[1] = "done" /\ pc[2] = "idle"
  /\ response[1].module.ok
  /\ \E pos \in Positions(before) :
       /\ ScannedBefore(pos, Target(1))
       /\ ModuleAt(before, pos).assignedToUserId = "U2"
       /\ ModuleAt(before, pos).status = "in-progress"
       /\ ModuleAt(projects, pos) = ModuleAt(before, pos)

\* request p has scanned the projects
Scanned(p) == obs[p].reads >= 2

First(S) == CHOOSE a \in S : \A b \in S : a = b \/ ScannedBefore(a, b)

\* C24: the matcher returns the first rule-matching candidate in scan order
\* (projects in store order, modules by position) when there is one; when
\* there is none, the first candidate without rule (or without repository in
\* its rule); when there is no candidate of either kind, nothing.
C24_FirstInScanOrder ==
  \A p \in Procs :
    (Delivered(p) /\ Scanned(p)) =>
      LET uid == loc[p].user.id
          matching == { pos \in Positions(obs[p].scan) :
                          RuleMatching(ModuleAt(obs[p].scan, pos), uid, Repository(p).name) }
          fallback == { pos \in Positions(obs[p].scan) :
                          WithoutRepository(ModuleAt(obs[p].scan, pos), uid) }
      IN /\ matching /= {} => (Selected(p) /\ Target(p) = First(matching))
         /\ (matching = {} /\ fallback /= {}) => (Selected(p) /\ Target(p) = First(fallback))
         /\ (matching = {} /\ fallback = {}) => ~Selected(p)

\* the module at pos is the only in-progress module of the pusher's user in the
\* store the delivery found, and its rule names the event's repository in
\* another letter case
OnlyModuleInOtherCase(p, pos) ==
  /\ OfPusherInProgress(ModuleAt(before, pos), p)
  /\ \A other \in Positions(before) \ {pos} : ~OfPusherInProgress(ModuleAt(before, other), p)
  /\ Repository(p).kind = "name"
  /\ ModuleAt(before, pos).validationRule.present
  /\ ModuleAt(before, pos).validationRule.githubRepo /= Repository(p).name
  /\ EqualIgnoringCase(ModuleAt(before, pos).validationRule.githubRepo, Repository(p).name)

\* C25: repository names are compared ignoring case: the only in-progress
\* module of the pusher's user, whose rule repository differs from the event's
\* in letter case only, is chosen and completed by the event (the store
\* reachable).
C25_CaseIsIgnored ==
  \A p \in Procs : \A pos \in Positions(before) :
    ( /\ Delivered(p) /\ pc[p] = "done"
      /\ ~obs[p].storeFailed
      /\ OnlyModuleInOtherCase(p, pos) ) =>
      /\ Target(p) = pos
      /\ response[p].module.ok
      /\ response[p].module.id = ModuleAt(before, pos).id
      /\ ModuleAt(projects, pos).status = "completed"

C25_Witness ==
  /\ pc[1] = "done" /\ pc[2] = "idle"
  /\ Selected(1)
  /\ OnlyModuleInOtherCase(1, Target(1))
  /\ Cardinality(Positions(before)) > 1
  /\ response[1].module.ok

\* the completion spans of a set of modules, in whole days, added up
RECURSIVE TotalSpan(_, _)
TotalSpan(projs, S) ==
  IF S = {} THEN 0
  ELSE LET pos == CHOOSE x \in S : TRUE
       IN ((ModuleAt(projs, pos).completedAt - ModuleAt(projs, pos).createdAt) \div DayTicks)
          + TotalSpan(projs, S \ {pos})

\* C26 as stated: without data points the average completion time of the
\* estimate is the default 7; with data points it is the mean of their
\* completion spans in whole days.
C26_AverageIsMean ==
  \A p \in Procs :
    Computed(p) =>
      LET points == DataPoints(projects, loc[p].user.id)
          n == Cardinality(points)
          avg == loc[p].result.delay.avgCompletionTime
      IN /\ ~avg.isNone
         /\ n = 0 => avg.tenths = 70
         /\ n > 0 => avg.tenths * n = 10 * TotalSpan(projects, points)

\* C26, amended: ... with data points it is the mean of their completion
\* spans rounded to one decimal place: no tenth is nearer to the mean.
C26_AverageIsRoundedMean ==
  \A p \in Procs :
    Computed(p) =>
      LET points == DataPoints(projects, loc[p].user.id)
          n == Cardinality(points)
          avg == loc[p].result.delay.avgCompletionTime
      IN /\ ~avg.isNone
         /\ n = 0 => avg.tenths = 70
         /\ n > 0 => 2 * Abs(avg.tenths * n - 10 * TotalSpan(projects, points)) <= n

C26_Witness ==
  /\ pc[1] = "done"
  /\ Computed(1)
  /\ Cardinality(DataPoints(projects, "U1")) = 3
  /\ (10 * TotalSpan(projects, DataPoints(projects, "U1"))) % 3 = 2
  /\ ~response[1].module.delay.avgCompletionTime.isNone

\* the module an event names is completed in the store
CompletedInStore(e) ==
  \E pos \in Positions(projects) :
    /\ pos[1] = e.projectId
    /\ ModuleAt(projects, pos).id = e.module.id
    /\ ModuleAt(projects, pos).status = "completed"

\* C27: in every execution a task_updated for a module is emitted only once
\* the module is completed in the store, the module_updated of the same request
\* comes after its task_updated, and the HTTP response of the request comes
\* after both.
C27_EffectsInOrder ==
  \A p \in Procs :
    /\ Len(emitted[p]) <= 2
    /\ Len(emitted[p]) >= 1 =>
         /\ emitted[p][1].event = "task_updated"
         /\ CompletedInStore(emitted[p][1])
    /\ Len(emitted[p]) = 2 => emitted[p][2].event = "module_updated"
    /\ pc[p] \in {"emit_task", "emit_module", "respond"} => response[p] = NoResponse
    /\ (response[p] /= NoResponse /\ response[p].module.ok) => Len(emitted[p]) = 2

C27_Witness ==
  /\ pc[1] = "done"
  /\ response[1].module.ok
  /\ Len(emitted[1]) = 2
  /\ pc[2] = "emit_module"
  /\ Len(emitted[2]) = 1
  /\ emitted[2][1].module.id = emitted[1][1].module.id

\* the event of request p has set a module to completed in the store
SetCompleted(p) ==
  \E pos \in Positions(before) :
    /\ ModuleAt(before, pos).status /= "completed"
    /\ ModuleAt(projects, pos).status = "completed"

\* C28: an event that has set a module to completed in the store returns a
\* result, answers with it and emits its pair of broadcasts, also when a store
\* read after the update fails; it never leaves a module completed while
\* answering without result.
C28_NoSilentCompletion ==
  \A p \in Procs :
    (Delivered(p) /\ pc[p] = "done" /\ SetCompleted(p)) =>
      /\ loc[p].result.ok
      /\ response[p].code = 200
      /\ response[p].module.ok
      /\ Len(emitted[p]) = 2

\* the module at pos is in-progress for the pusher's user with a rule that
\* names no repository, and the scan reaches it: no module scanned before it
\* is one the event can complete
ReachedRuleWithoutRepository(p, pos) ==
  /\ OfPusherInProgress(ModuleAt(before, pos), p)
  /\ Repository(p).kind = "name" /\ Repository(p).name /= <<>>
  /\ ModuleAt(before, pos).validationRule.present
  /\ ModuleAt(before, pos).validationRule.githubRepo = <<>>
  /\ \A b \in Positions(before) :
       ScannedBefore(b, pos)
       => ~Candidate(ModuleAt(before, b), UserOf(Pusher(p).name).id, Repository(p).name)

\* C29: an in-progress module of the pusher's user whose rule is present but
\* names no repository is treated like one without rule: whatever the event's
\* repository name, it is chosen as soon as the scan reaches it, and completed
\* (the store reachable).
C29_RuleWithoutRepositoryIsFallback ==
  \A p \in Procs : \A pos \in Positions(before) :
    ( /\ Delivered(p) /\ pc[p] = "done"
      /\ ~obs[p].storeFailed
      /\ ReachedRuleWithoutRepository(p, pos) ) =>
      /\ Target(p) = pos
      /\ response[p].module.ok
      /\ response[p].module.id = ModuleAt(before, pos).id
      /\ ModuleAt(projects, pos).status = "completed"

C29_Witness ==
  /\ pc[1] = "done" /\ pc[2] = "idle"
  /\ Selected(1)
  /\ ReachedRuleWithoutRepository(1, Target(1))
  /\ Repository(1).name = Other
  /\ \E pos \in Positions(before) :
       /\ ScannedBefore(Target(1), pos)
       /\ RuleMatching(ModuleAt(before, pos), "U1", Tracker)
  /\ response[1].module.ok

\* C30: the delay is the floor of completedAt - dueDate in days: a completion
\* less than one day after the due date gives 0 and 'Completed on time', one
\* less than one day (and more than nothing) before it gives -1 and 'Completed
\* 1 days early'.
C30_DelayIsFloor ==
  \A p \in Procs :
    Computed(p) =>
      LET late == loc[p].updated_module.completedAt - loc[p].updated_module.dueDate
          delay == loc[p].result.delay
      IN /\ delay.predictedDelay * DayTicks <= late
         /\ late < (delay.predictedDelay + 1) * DayTicks
         /\ (0 < late /\ late < DayTicks) =>
              /\ delay.predictedDelay = 0
              /\ delay.delayReason = [text |-> "on time", days |-> 0]
         /\ (0 < -late /\ -late < DayTicks) =>
              /\ delay.predictedDelay = -1
              /\ delay.delayReason = [text |-> "early", days |-> 1]

C30_Witness ==
  /\ pc[1] = "done"
  /\ Computed(1)
  /\ loc[1].updated_module.dueDate - loc[1].updated_module.completedAt = 1
  /\ response[1].module.delay.predictedDelay = -1
  /\ response[1].module.delay.delayReason.text = "early"

\* ---------------------------------------------------------------- manager
\* C31: the manager gives up ('Max restart attempts (5) reached', cleanup,
\* exit status 1) exactly when 5 consecutive restart attempts have failed
\* since the last successful start: never after fewer than 5 failed attempts,
\* and it never begins a 6th consecutive attempt.
C31_GivesUpAfterFiveFailures ==
  /\ manager.gave_up =>
       /\ manager.failed = MAX_RESTART_ATTEMPTS
       /\ manager.status = 1
       /\ manager.cleaned
  /\ manager.begun <= MAX_RESTART_ATTEMPTS
  /\ (manager.pc = "start_ngrok" /\ manager.caller = "attempt_restart")
       => manager.failed < MAX_RESTART_ATTEMPTS

\* attempt_restart has returned to the monitor loop
Restarted == manager.caller = "attempt_restart" /\ manager.pc \in {"monitor", "healthy"}

\* C32: restart_count goes back to 0 only in a restart that started ngrok and
\* obtained a public URL, and no other step makes it smaller; after
\* attempt_restart has returned, the URL file exists if and only if that
\* restart obtained a public URL.
C32_CountAndFileFollowRestart ==
  /\ [][ manager'.restart_count < manager.restart_count =>
           /\ manager'.restart_count = 0
           /\ manager.pc = "save"
           /\ manager.caller = "attempt_restart"
           /\ manager.url /= None ]_vars
  /\ [](Restarted => (manager.url_file <=> manager.url /= None))

\* the latest health check found the process running and a tunnel listed
SeenHealthy ==
  /\ manager.observed.process = "running"
  /\ manager.observed.ok
  /\ manager.observed.tunnels > 0

\* C33: once the manager monitors, if from some point on no health check
\* finds the tunnel healthy and no restart obtains a public URL, the manager
\* eventually cleans up and exits with status 1; and attempt_restart is never
\* called after a health check that found the tunnel healthy.
C33_PersistentFailureEnds ==
  /\ [](manager.pc = "attempt_restart" => ~SeenHealthy)
  /\ (/\ <>(manager.pc = "monitor")
      /\ <>[](manager.pc \notin {"healthy", "save"}))
       => <>(manager.pc = "exit" /\ manager.status = 1 /\ manager.cleaned)

C33_Witness ==
  /\ manager.gave_up
  /\ manager.pc = "exit"
  /\ manager.status = 1
  /\ manager.cleaned
  /\ manager.failed = 5

\* get_public_url has returned (its value is manager.url)
Returned == manager.pc = "got_url"

\* C34: get_public_url makes at most 10 requests and then ends; it returns
\* the URL of an https tunnel when the first non-empty tunnel list has one,
\* else the URL of the first tunnel of that list, and None when all 10
\* requests failed or listed no tunnel.
C34_PublicUrlOfFirstList ==
  /\ manager.requests <= max_retries
  /\ manager.pc = "get_public_url" => manager.requests < max_retries
  /\ Returned =>
       LET first == manager.first
           https == { i \in DOMAIN first : first[i].proto = "https" }
       IN /\ (first /= <<>> /\ https /= {}) =>
               \E i \in https : manager.url = first[i].public_url
          /\ (first /= <<>> /\ https = {}) => manager.url = first[1].public_url
          /\ first = <<>> => (manager.url = None /\ manager.requests = max_retries)
          /\ manager.url = None => first = <<>>

C34_Witness ==
  /\ Returned
  /\ manager.requests > 1
  /\ Len(manager.first) > 1
  /\ manager.first[1].proto = "http"
  /\ manager.first[2].proto = "https"
  /\ manager.url = manager.first[2].public_url
  /\ manager.url /= manager.first[1].public_url

====
